---------------------------- MODULE Spec2Model ----------------------------
(***************************************************************************)
(* A model of src/src/opa.ts of vscode-opa: the OPA version comparison,    *)
(* the rendering of a ref as a string, and the execution of the OPA binary *)
(* as a child process (runWithStatus, run, parse).                         *)
(*                                                                         *)
(* A JavaScript string is a sequence of one-character strings.  The JS     *)
(* library functions the code calls (String.prototype.split, trim, Number, *)
(* JSON.stringify, JSON.parse, RegExp.prototype.test) are operators that   *)
(* compute what the library computes on the characters the model uses.     *)
(***************************************************************************)
EXTENDS Integers, Sequences, FiniteSets, TLC

VARIABLES
    \* opaVersionSameOrNewerThan / installedOPASameOrNewerThan
    vpc,        \* "compare" | "installed" | "compared"
    va, vb,     \* the two version strings compared
    vstatus,    \* spawnSync('opa', ['version']).status: "0", "1" or "null"
    vstdout,    \* spawnSync('opa', ['version']).stdout
    vres,       \* the value returned
    \* refToString
    rpc,        \* "start" | "loop" | "returned"
    ref,        \* the argument
    ri,         \* the loop index i (0-based, as in the source)
    result,     \* the local variable result
    \* the machine the extension runs on
    pathBinary, \* what `opa` on the search path is: "none" or "v0130"
    override,   \* the setting opa.path: "undefined", "null", or what is at that path
    \* one call of runWithStatus, run or parse
    pc,         \* "idle" | "noBinary" | "spawned" | "spawnError" | "errored"
    entry,      \* the function called: "runWithStatus" | "run" | "parse"
    spawnedExe, \* the path handed to cp.spawn
    stdinEnded, \* proc.stdin.end() was called
    stdout, stderr,         \* the closure variables of runWithStatus
    exitFired,  \* the 'exit' listener ran
    \* the child process
    cstate,     \* "none" | "running" | "terminated"
    exitStatus, \* the code the 'exit' event carries
    outScript, errScript,   \* chunks the child has still to write
    outPipe, errPipe,       \* chunks written and not yet delivered as 'data'
    wroteOut, wroteErr,     \* all the child has written so far
    \* the version query of canUseBundleFlags / dataParam / getDataDir
    versionQueried, versionExe, decision,
    \* what the callers observe
    promptCount, spawnCount,
    cbCount, cbArgs,        \* runWithStatus's cb
    runCbCount, runCbArgs,  \* run's cb
    onerrorCount, onerrorArg, parseCbCount,     \* parse's onerror and cb
    uncaught    \* an exception thrown out of an event listener

versionVars == <<vpc, va, vb, vstatus, vstdout, vres>>
refVars == <<rpc, ref, ri, result>>
machineVars == <<pathBinary, override>>
callVars == <<pc, entry, spawnedExe, stdinEnded, stdout, stderr, exitFired>>
childVars == <<cstate, exitStatus, outScript, errScript, outPipe, errPipe, wroteOut, wroteErr>>
queryVars == <<versionQueried, versionExe, decision>>
observedVars ==
    <<promptCount, spawnCount, cbCount, cbArgs, runCbCount, runCbArgs,
      onerrorCount, onerrorArg, parseCbCount, uncaught>>
procVars == <<machineVars, callVars, childVars, queryVars, observedVars>>
vars == <<versionVars, refVars, procVars>>

(***************************************************************************)
(* Bounds of the model.                                                    *)
(***************************************************************************)
MaxPatchLen == 1
MaxRefLen == 4
MaxOutChunks == 2
MaxErrChunks == 1

(***************************************************************************)
(* Characters and strings.                                                 *)
(***************************************************************************)
Digits == {"0", "1", "2", "3", "4", "5", "6", "7", "8", "9"}
Lower == {"a", "b", "c", "d", "e", "i", "k", "m", "n", "o", "p", "r", "s", "t", "u", "v", "x"}
Upper == {"B", "C", "V"}
WhiteSpace == {" ", "\n", "\t", "\r"}

DigitVal == "0" :> 0 @@ "1" :> 1 @@ "2" :> 2 @@ "3" :> 3 @@ "4" :> 4 @@
            "5" :> 5 @@ "6" :> 6 @@ "7" :> 7 @@ "8" :> 8 @@ "9" :> 9

DigitChar == [n \in 0..9 |-> CHOOSE c \in Digits : DigitVal[c] = n]

\* The UTF-16 code unit of each character.
CharCode ==
    " " :> 32 @@ "-" :> 45 @@ "." :> 46 @@ "0" :> 48 @@ "1" :> 49 @@ "2" :> 50 @@
    "3" :> 51 @@ "4" :> 52 @@ "5" :> 53 @@ "6" :> 54 @@ "7" :> 55 @@ "8" :> 56 @@
    "9" :> 57 @@ ":" :> 58 @@ "B" :> 66 @@ "C" :> 67 @@ "V" :> 86 @@ "_" :> 95 @@
    "a" :> 97 @@ "b" :> 98 @@ "c" :> 99 @@ "d" :> 100 @@ "e" :> 101 @@ "i" :> 105 @@
    "k" :> 107 @@ "m" :> 109 @@ "n" :> 110 @@ "o" :> 111 @@ "p" :> 112 @@ "r" :> 114 @@
    "s" :> 115 @@ "t" :> 116 @@ "u" :> 117 @@ "v" :> 118 @@ "x" :> 120

RECURSIVE Concat(_)
Concat(ss) == IF ss = <<>> THEN <<>> ELSE Head(ss) \o Concat(Tail(ss))

Take(s, n) == SubSeq(s, 1, IF n < Len(s) THEN n ELSE Len(s))

\* The strings over alphabet of length at most n.
StringsUpTo(alphabet, n) == UNION {[1..k -> alphabet] : k \in 0..n}

\* The first position at which sep occurs in s, 0 when there is none.
IndexOf(s, sep) ==
    LET hits == {i \in 1..(Len(s) - Len(sep) + 1) : SubSeq(s, i, i + Len(sep) - 1) = sep}
    IN IF hits = {} THEN 0 ELSE CHOOSE i \in hits : \A j \in hits : i <= j

\* String.prototype.split(sep) for a non-empty separator.
RECURSIVE SplitAll(_, _)
SplitAll(s, sep) ==
    LET i == IndexOf(s, sep)
    IN IF i = 0 THEN <<s>>
       ELSE <<SubSeq(s, 1, i - 1)>> \o SplitAll(SubSeq(s, i + Len(sep), Len(s)), sep)

\* String.prototype.split(sep, limit): the first limit pieces of the split;
\* what follows them is dropped, not kept in the last piece.
Split(s, sep, limit) == Take(SplitAll(s, sep), limit)

\* String.prototype.trim
RECURSIVE TrimStart(_)
TrimStart(s) == IF s # <<>> /\ Head(s) \in WhiteSpace THEN TrimStart(Tail(s)) ELSE s
RECURSIVE TrimEnd(_)
TrimEnd(s) ==
    IF s # <<>> /\ s[Len(s)] \in WhiteSpace THEN TrimEnd(SubSeq(s, 1, Len(s) - 1)) ELSE s
Trim(s) == TrimEnd(TrimStart(s))

(***************************************************************************)
(* JS numbers: a number is [nan, val]; NaN is [nan |-> TRUE, val |-> 0].   *)
(***************************************************************************)
NaN == [nan |-> TRUE, val |-> 0]
Num(n) == [nan |-> FALSE, val |-> n]

RECURSIVE DigitsValue(_, _)
DigitsValue(s, acc) ==
    IF s = <<>> THEN acc ELSE DigitsValue(Tail(s), 10 * acc + DigitVal[Head(s)])

\* Number(s) on strings of digits, letters, '-' and white space: white space
\* is trimmed, the empty string is 0, an optionally signed run of digits is
\* its decimal value, anything else is NaN.  (No string of the model holds a
\* '.', an exponent or a radix prefix inside a field.)
Number(s) ==
    LET t == Trim(s)
        neg == t # <<>> /\ Head(t) = "-"
        u == IF neg THEN Tail(t) ELSE t
    IN IF t = <<>> THEN Num(0)
       ELSE IF u # <<>> /\ \A k \in 1..Len(u) : u[k] \in Digits
            THEN Num(IF neg THEN 0 - DigitsValue(u, 0) ELSE DigitsValue(u, 0))
            ELSE NaN

\* x > y on JS numbers: false when either is NaN.
NumGt(x, y) == ~x.nan /\ ~y.nan /\ x.val > y.val

\* s < t on JS strings: by code units, a proper prefix is smaller.
RECURSIVE StrLt(_, _)
StrLt(s, t) ==
    IF t = <<>> THEN FALSE
    ELSE IF s = <<>> THEN TRUE
    ELSE IF CharCode[Head(s)] # CharCode[Head(t)] THEN CharCode[Head(s)] < CharCode[Head(t)]
    ELSE StrLt(Tail(s), Tail(t))

StrGe(s, t) == ~StrLt(s, t)

(***************************************************************************)
(* parseOPAVersion: <<>> or <<major, minor, point, patch>>.                *)
(***************************************************************************)
parseOPAVersion(s) ==
    LET parts == Split(s, <<".">>, 3)
    IN IF Len(parts) < 3 THEN <<>>
       ELSE LET major == Number(parts[1])
                minor == Number(parts[2])
                pointParts == Split(parts[3], <<"-">>, 2)
                point == Number(pointParts[1])
                patch == IF Len(pointParts) >= 2 THEN pointParts[2] ELSE <<>>
            IN <<major, minor, point, patch>>

\* The for loop of opaVersionSameOrNewerThan from index i (1-based here):
\* "true", "false", or "equal" when the loop ends without returning.
RECURSIVE CompareFields(_, _, _)
CompareFields(aVersion, bVersion, i) ==
    IF i > 3 THEN "equal"
    ELSE IF NumGt(aVersion[i], bVersion[i]) THEN "true"
    ELSE IF NumGt(bVersion[i], aVersion[i]) THEN "false"
    ELSE CompareFields(aVersion, bVersion, i + 1)

\* opaVersionSameOrNewerThan with the patch versions compared as strings only:
\* the two tests on the empty patch version left out.
opaVersionSameOrNewerThanPlainPatch(a, b) ==
    LET aVersion == parseOPAVersion(a)
        bVersion == parseOPAVersion(b)
    IN IF Len(aVersion) # 4 \/ Len(bVersion) # 4 THEN TRUE
       ELSE LET loop == CompareFields(aVersion, bVersion, 1)
            IN IF loop = "true" THEN TRUE
               ELSE IF loop = "false" THEN FALSE
               ELSE StrGe(aVersion[4], bVersion[4])

\* opaVersionSameOrNewerThan answering false for a version it cannot parse.
opaVersionSameOrNewerThanFailClosed(a, b) ==
    LET aVersion == parseOPAVersion(a)
        bVersion == parseOPAVersion(b)
    IN IF Len(aVersion) # 4 \/ Len(bVersion) # 4 THEN FALSE
       ELSE LET loop == CompareFields(aVersion, bVersion, 1)
            IN IF loop = "true" THEN TRUE
               ELSE IF loop = "false" THEN FALSE
               ELSE IF aVersion[4] = <<>> /\ bVersion[4] # <<>> THEN TRUE
               ELSE IF aVersion[4] # <<>> /\ bVersion[4] = <<>> THEN FALSE
               ELSE StrGe(aVersion[4], bVersion[4])

opaVersionSameOrNewerThan(a, b) ==
    LET aVersion == parseOPAVersion(a)
        bVersion == parseOPAVersion(b)
    IN IF Len(aVersion) # 4 \/ Len(bVersion) # 4 THEN TRUE
       ELSE LET loop == CompareFields(aVersion, bVersion, 1)
            IN IF loop = "true" THEN TRUE
               ELSE IF loop = "false" THEN FALSE
               ELSE IF aVersion[4] = <<>> /\ bVersion[4] # <<>> THEN TRUE
               ELSE IF aVersion[4] # <<>> /\ bVersion[4] = <<>> THEN FALSE
               ELSE StrGe(aVersion[4], bVersion[4])

\* The lines loop of getOPAVersionString from line i.
RECURSIVE VersionLine(_, _)
VersionLine(lines, i) ==
    IF i > Len(lines) THEN <<>>
    ELSE LET parts == Split(Trim(lines[i]), <<":", " ">>, 2)
         IN IF Len(parts) < 2 THEN VersionLine(lines, i + 1)
            ELSE IF parts[1] = <<"V", "e", "r", "s", "i", "o", "n">> THEN parts[2]
            ELSE VersionLine(lines, i + 1)

\* getOPAVersionString, given what spawnSync('opa', ['version']) returned.
getOPAVersionString(status, out) ==
    IF status # "0" THEN <<>>
    ELSE VersionLine(SplitAll(out, <<"\n">>), 1)

Threshold == <<"0", ".", "1", "4", ".", "0", "-", "d", "e", "v">>

installedOPASameOrNewerThan(status, out, x) ==
    opaVersionSameOrNewerThan(getOPAVersionString(status, out), x)

canUseBundleFlags(status, out) == installedOPASameOrNewerThan(status, out, Threshold)


(***************************************************************************)
(* The version strings the comparison is run on.                           *)
(***************************************************************************)
Dot == <<".">>
Dash == <<"-">>
Fields == {<<"0">>, <<"2">>, <<"1", "0">>, <<"x">>}
Patches == StringsUpTo({"d", "e"}, MaxPatchLen)
Suffixes == {<<>>} \cup {Dash \o p : p \in Patches} \cup {<<"-", "d", "-", "e">>}
WellFormed ==
    {ma \o Dot \o mi \o Dot \o pt \o suf : ma \in Fields, mi \in Fields, pt \in Fields, suf \in Suffixes}
Malformed ==
    {<<>>, <<"0">>, <<"0", ".", "2">>, <<"x">>, <<"0", "-", "d">>, <<"2", ".", "0", "-", "d">>,
     <<"n", "o", "t", "-", "a", "-", "v", "e", "r", "s", "i", "o", "n">>}
\* A fourth dot-separated part, a signed field, an empty field, white space.
Unusual ==
    {<<"0", ".", "2", ".", "0", ".", "2">>, <<"-", "2", ".", "0", ".", "0">>,
     <<".", ".", "-", "d">>, <<" ", "2", ".", "0", ".", "0">>}
VersionInputs == WellFormed \cup Malformed \cup Unusual

\* What `opa version` prints, and what spawnSync reports of it.
VersionLabel == <<"V", "e", "r", "s", "i", "o", "n">>
CommitLine == <<"B", "u", "i", "l", "d", " ", "C", "o", "m", "m", "i", "t", ":", " ", "e", "\n">>
VersionText(v) == VersionLabel \o <<":", " ">> \o v \o <<"\n">> \o CommitLine
V0130 == <<"0", ".", "1", "3", ".", "0">>
V0140 == <<"0", ".", "1", "4", ".", "0">>
V0150 == <<"0", ".", "1", "5", ".", "0">>
V0140rc == <<"0", ".", "1", "4", ".", "0", "-", "d", "e", "c">>
ReportedVersions == {V0130, V0140, V0150, V0140rc, Threshold, <<"x">>, <<"1", ".", "0", ".", "0", "-", "r", "c", "1">>}
VersionOutputs ==
    {VersionText(v) : v \in ReportedVersions}
    \cup {CommitLine \o VersionText(v) : v \in {V0130, V0150}}
    \cup {<<" ", " ">> \o VersionLabel \o <<":", " ">> \o V0130 \o <<" ", "\r", "\n">>}
    \cup {<<>>, CommitLine, VersionLabel \o <<"\n">>, VersionLabel \o <<":">> \o V0130 \o <<"\n">>}
SpawnStatuses == {"0", "1", "null"}

(***************************************************************************)
(* JS values of a ref's segments, and their conversions.                   *)
(***************************************************************************)
JStr(s) == [k |-> "str", s |-> s, n |-> 0]
JNum(n) == [k |-> "num", s |-> <<>>, n |-> n]
JNull == [k |-> "null", s |-> <<>>, n |-> 0]

RECURSIVE Decimal(_)
Decimal(n) == IF n < 10 THEN <<DigitChar[n]>> ELSE Decimal(n \div 10) \o <<DigitChar[n % 10]>>

\* String(v), the conversion string concatenation and RegExp.test apply.
JsString(v) ==
    CASE v.k = "str" -> v.s
      [] v.k = "num" -> Decimal(v.n)
      [] v.k = "null" -> <<"n", "u", "l", "l">>

\* The escapes JSON.stringify writes inside a string.
RECURSIVE Quote(_)
Quote(s) ==
    IF s = <<>> THEN <<>>
    ELSE (CASE Head(s) = "\"" -> <<"\\", "\"">>
            [] Head(s) = "\\" -> <<"\\", "\\">>
            [] Head(s) = "\n" -> <<"\\", "n">>
            [] OTHER -> <<Head(s)>>) \o Quote(Tail(s))

JSONstringify(v) ==
    CASE v.k = "str" -> <<"\"">> \o Quote(v.s) \o <<"\"">>
      [] v.k = "num" -> Decimal(v.n)
      [] v.k = "null" -> <<"n", "u", "l", "l">>

\* regoVarPattern.test(v): ^[a-zA-Z_][a-zA-Z0-9_]*$ on String(v).
regoVarPattern(v) ==
    LET s == JsString(v)
    IN /\ Len(s) >= 1
       /\ s[1] \in Lower \cup Upper \cup {"_"}
       /\ \A j \in 2..Len(s) : s[j] \in Lower \cup Upper \cup Digits \cup {"_"}

\* RefAppend without the test of the segment's type.
RefAppendAnyType(seg) ==
    IF regoVarPattern(seg.value)
    THEN <<".">> \o JsString(seg.value)
    ELSE <<"[">> \o JSONstringify(seg.value) \o <<"]">>

\* One iteration of refToString's loop: what is appended for ref[i].
RefAppend(seg) ==
    IF seg.type = "string" /\ regoVarPattern(seg.value)
    THEN <<".">> \o JsString(seg.value)
    ELSE <<"[">> \o JSONstringify(seg.value) \o <<"]">>

Seg(type, value) == [type |-> type, value |-> value]
Roots == {Seg("var", JStr(<<"i", "n", "p", "u", "t">>)), Seg("var", JStr(<<"d", "a", "t", "a">>))}
Segments ==
    {Seg("string", JStr(<<"a">>)), Seg("string", JStr(<<"b", "-", "c">>)),
     Seg("string", JStr(<<"_", "1">>)), Seg("string", JStr(<<"1", "a">>)),
     Seg("string", JStr(<<"\"">>)), Seg("string", JStr(<<>>)),
     Seg("var", JStr(<<"a">>)), Seg("number", JNum(0)), Seg("number", JNum(10)),
     Seg("null", JNull)}
Refs ==
    {<<>>} \cup {<<r>> \o t : r \in Roots, t \in StringsUpTo(Segments, MaxRefLen - 1)}


(***************************************************************************)
(* JSON.parse on the JSON the model's child processes print: objects,      *)
(* arrays, strings without escapes, unsigned integers, true, false, null.  *)
(* A parse is [ok, val, pos]: pos is the position after the value.         *)
(***************************************************************************)
TStr(s) == [t |-> "str", s |-> s]
TNum(n) == [t |-> "num", n |-> n]
TLit(name) == [t |-> name]
TArr(items) == [t |-> "arr", items |-> items]
TObj(members) == [t |-> "obj", members |-> members]
EmptyString == TStr(<<>>)

Fail == [ok |-> FALSE, val |-> TLit("null"), pos |-> 0]
Ok(val, pos) == [ok |-> TRUE, val |-> val, pos |-> pos]

RECURSIVE SkipWs(_, _)
SkipWs(s, p) == IF p <= Len(s) /\ s[p] \in WhiteSpace THEN SkipWs(s, p + 1) ELSE p

StartsWith(s, p, lit) == p + Len(lit) - 1 <= Len(s) /\ SubSeq(s, p, p + Len(lit) - 1) = lit

\* The string whose opening quote is at p - 1.
ParseString(s, p) ==
    LET closes == {j \in p..Len(s) : s[j] = "\""}
    IN IF closes = {} THEN Fail
       ELSE LET j == CHOOSE c \in closes : \A d \in closes : c <= d
            IN IF \E k \in p..(j - 1) : s[k] \in {"\\", "\n", "\t", "\r"} THEN Fail
               ELSE Ok(TStr(SubSeq(s, p, j - 1)), j + 1)

\* The number whose first digit is at p.
ParseNumber(s, p) ==
    LET stops == {j \in p..(Len(s) + 1) : j = Len(s) + 1 \/ s[j] \notin Digits}
        j == CHOOSE c \in stops : \A d \in stops : c <= d
    IN IF s[p] = "0" /\ j > p + 1 THEN Fail
       ELSE Ok(TNum(DigitsValue(SubSeq(s, p, j - 1), 0)), j)

RECURSIVE ParseValue(_, _)
RECURSIVE ParseItems(_, _, _)
RECURSIVE ParseMembers(_, _, _)

\* The rest of an array after '[' or ',': a value, then ',' or ']'.
ParseItems(s, p, acc) ==
    LET v == ParseValue(s, p)
        q == SkipWs(s, v.pos)
    IN IF ~v.ok \/ q > Len(s) THEN Fail
       ELSE IF s[q] = "," THEN ParseItems(s, q + 1, Append(acc, v.val))
       ELSE IF s[q] = "]" THEN Ok(TArr(Append(acc, v.val)), q + 1)
       ELSE Fail

\* The rest of an object after '{' or ',': "key" : value, then ',' or '}'.
ParseMembers(s, p, acc) ==
    LET k == SkipWs(s, p)
    IN IF k > Len(s) \/ s[k] # "\"" THEN Fail
       ELSE LET key == ParseString(s, k + 1)
                c == SkipWs(s, key.pos)
            IN IF ~key.ok \/ c > Len(s) \/ s[c] # ":" THEN Fail
               ELSE LET v == ParseValue(s, c + 1)
                        q == SkipWs(s, v.pos)
                        all == Append(acc, <<key.val.s, v.val>>)
                    IN IF ~v.ok \/ q > Len(s) THEN Fail
                       ELSE IF s[q] = "," THEN ParseMembers(s, q + 1, all)
                       ELSE IF s[q] = "}" THEN Ok(TObj(all), q + 1)
                       ELSE Fail

ParseValue(s, p) ==
    LET q == SkipWs(s, p)
    IN IF q > Len(s) THEN Fail
       ELSE IF s[q] = "{"
            THEN (LET e == SkipWs(s, q + 1)
                  IN IF e <= Len(s) /\ s[e] = "}" THEN Ok(TObj(<<>>), e + 1)
                     ELSE ParseMembers(s, q + 1, <<>>))
       ELSE IF s[q] = "["
            THEN (LET e == SkipWs(s, q + 1)
                  IN IF e <= Len(s) /\ s[e] = "]" THEN Ok(TArr(<<>>), e + 1)
                     ELSE ParseItems(s, q + 1, <<>>))
       ELSE IF s[q] = "\"" THEN ParseString(s, q + 1)
       ELSE IF s[q] \in Digits THEN ParseNumber(s, q)
       ELSE IF StartsWith(s, q, <<"t", "r", "u", "e">>) THEN Ok(TLit("true"), q + 4)
       ELSE IF StartsWith(s, q, <<"f", "a", "l", "s", "e">>) THEN Ok(TLit("false"), q + 5)
       ELSE IF StartsWith(s, q, <<"n", "u", "l", "l">>) THEN Ok(TLit("null"), q + 4)
       ELSE Fail

\* JSON.parse(s): [ok |-> FALSE] stands for the SyntaxError it throws.
JSONparse(s) ==
    LET v == ParseValue(s, 1)
    IN IF v.ok /\ SkipWs(s, v.pos) = Len(s) + 1 THEN v ELSE Fail


(***************************************************************************)
(* runWithStatus, run and parse.                                           *)
(***************************************************************************)
PathBinaries == {"none", "v0130"}
Overrides == {"undefined", "null", "missing", "noexec", "v0150"}
Entries == {"runWithStatus", "run", "parse"}

\* The version the binary prints.
BinaryVersion(b) == IF b = "v0130" THEN V0130 ELSE V0150

Code(n) == [null |-> FALSE, n |-> n]
SignalExit == [null |-> TRUE, n |-> 0]
ExitStatuses == {Code(0), Code(1), SignalExit}

\* code !== 0
CodeNotZero(code) == code.null \/ code.n # 0

OutChunks ==
    {<<"{", "\"", "o", "k", "\"", ":">>, <<"t", "r", "u", "e", "}">>, <<"e", "r", "r">>}
ErrChunks == {<<"b", "o", "o", "m">>}
OutScripts == StringsUpTo(OutChunks, MaxOutChunks)
ErrScripts == StringsUpTo(ErrChunks, MaxErrChunks)

\* commandExistsSync(path), for the path 'opa' the extension passes.
existsOnPath(pb) == pb # "none"

\* opaPath !== undefined && opaPath !== null && existsSync(opaPath)
existsInUserSettings(ov) == ov # "undefined" /\ ov # "null" /\ ov # "missing"

\* binaryUsable looking at the setting only.
binaryUsableSettingOnly(pb, ov) == existsInUserSettings(ov)

\* The negation of the guard of the early return of runWithStatus.
binaryUsable(pb, ov) == existsOnPath(pb) \/ existsInUserSettings(ov)

\* The path handed to cp.spawn: the setting opa.path, or the argument.
resolvedPath(pb, ov) == IF existsInUserSettings(ov) THEN "opa.path" ELSE "opa"

\* Whether the operating system can execute what is at the path.
Executable(path, pb, ov) == IF path = "opa.path" THEN ov = "v0150" ELSE pb # "none"

\* RunCallback reporting stderr first.
RunCallbackStderrFirst(code, err, out) ==
    IF CodeNotZero(code)
    THEN IF err # <<>>
         THEN [kind |-> "cb", error |-> err, result |-> EmptyString]
         ELSE [kind |-> "cb", error |-> out, result |-> EmptyString]
    ELSE LET j == JSONparse(out)
         IN IF j.ok THEN [kind |-> "cb", error |-> <<>>, result |-> j.val]
            ELSE [kind |-> "throw", error |-> <<>>, result |-> EmptyString]

\* The listener run passes to runWithStatus: the call of cb, or the
\* SyntaxError JSON.parse throws.
RunCallback(code, err, out) ==
    IF CodeNotZero(code)
    THEN IF out # <<>>
         THEN [kind |-> "cb", error |-> out, result |-> EmptyString]
         ELSE [kind |-> "cb", error |-> err, result |-> EmptyString]
    ELSE LET j == JSONparse(out)
         IN IF j.ok THEN [kind |-> "cb", error |-> <<>>, result |-> j.val]
            ELSE [kind |-> "throw", error |-> <<>>, result |-> EmptyString]

\* The listener parse passes to run: which branch it takes.
ParseCallback(error) == IF error # <<>> THEN "onerror" ELSE "extract"

\* getPackage and getImports of ./util: they return, or they throw.
ExtractionOutcomes == {"returns", "throws"}

ProcInit ==
    /\ pc = "idle" /\ entry = "none" /\ spawnedExe = "unset" /\ stdinEnded = FALSE
    /\ stdout = <<>> /\ stderr = <<>> /\ exitFired = FALSE
    /\ cstate = "none" /\ exitStatus = Code(0)
    /\ outScript = <<>> /\ errScript = <<>> /\ outPipe = <<>> /\ errPipe = <<>>
    /\ wroteOut = <<>> /\ wroteErr = <<>>
    /\ versionQueried = FALSE /\ versionExe = "unset" /\ decision = FALSE
    /\ promptCount = 0 /\ spawnCount = 0
    /\ cbCount = 0 /\ cbArgs = [code |-> Code(0), stderr |-> <<>>, stdout |-> <<>>]
    /\ runCbCount = 0 /\ runCbArgs = [error |-> <<>>, result |-> EmptyString]
    /\ onerrorCount = 0 /\ onerrorArg = <<>> /\ parseCbCount = 0
    /\ uncaught = "none"

\* installedOPASameOrNewerThan("0.14.0-dev"): spawnSync('opa', ['version']).
VersionQuery ==
    /\ pc = "idle" /\ ~versionQueried
    /\ versionQueried' = TRUE
    /\ versionExe' = "opa"
    /\ decision' = IF pathBinary = "none" THEN canUseBundleFlags("null", <<>>)
                   ELSE canUseBundleFlags("0", VersionText(BinaryVersion(pathBinary)))
    /\ UNCHANGED <<versionVars, refVars, machineVars, callVars, childVars, observedVars>>

\* runWithStatus up to its return: the prompt, or the spawn and the
\* registration of the listeners.
Call ==
    /\ pc = "idle"
    /\ \E e \in Entries, os \in OutScripts, es \in ErrScripts, st \in ExitStatuses :
        /\ entry' = e
        /\ IF ~binaryUsable(pathBinary, override)
           THEN /\ promptCount' = promptCount + 1
                /\ pc' = "noBinary"
                /\ UNCHANGED <<spawnedExe, stdinEnded, spawnCount, childVars>>
           ELSE /\ spawnedExe' = resolvedPath(pathBinary, override)
                /\ spawnCount' = spawnCount + 1
                /\ stdinEnded' = TRUE
                /\ UNCHANGED promptCount
                /\ IF Executable(resolvedPath(pathBinary, override), pathBinary, override)
                   THEN /\ pc' = "spawned"
                        /\ cstate' = "running"
                        /\ outScript' = os /\ errScript' = es /\ exitStatus' = st
                        /\ UNCHANGED <<outPipe, errPipe, wroteOut, wroteErr>>
                   ELSE /\ pc' = "spawnError"
                        /\ UNCHANGED childVars
    /\ UNCHANGED <<stdout, stderr, exitFired>>
    /\ UNCHANGED <<cbCount, cbArgs, runCbCount, runCbArgs, onerrorCount, onerrorArg, parseCbCount, uncaught>>
    /\ UNCHANGED <<versionVars, refVars, machineVars, queryVars>>

\* The 'error' event of a child that could not be started: no listener is
\* registered for it, so the emitter throws.
OnSpawnError ==
    /\ pc = "spawnError"
    /\ pc' = "errored"
    /\ uncaught' = "spawn error"
    /\ UNCHANGED <<entry, spawnedExe, stdinEnded, stdout, stderr, exitFired>>
    /\ UNCHANGED <<promptCount, spawnCount, cbCount, cbArgs, runCbCount, runCbArgs, onerrorCount, onerrorArg, parseCbCount>>
    /\ UNCHANGED <<versionVars, refVars, machineVars, childVars, queryVars>>

ChildWriteOut ==
    /\ cstate = "running" /\ outScript # <<>>
    /\ outPipe' = Append(outPipe, Head(outScript))
    /\ wroteOut' = wroteOut \o Head(outScript)
    /\ outScript' = Tail(outScript)
    /\ UNCHANGED <<cstate, exitStatus, errScript, errPipe, wroteErr>>
    /\ UNCHANGED <<versionVars, refVars, machineVars, callVars, queryVars, observedVars>>

ChildWriteErr ==
    /\ cstate = "running" /\ errScript # <<>>
    /\ errPipe' = Append(errPipe, Head(errScript))
    /\ wroteErr' = wroteErr \o Head(errScript)
    /\ errScript' = Tail(errScript)
    /\ UNCHANGED <<cstate, exitStatus, outScript, outPipe, wroteOut>>
    /\ UNCHANGED <<versionVars, refVars, machineVars, callVars, queryVars, observedVars>>

ChildTerminate ==
    /\ cstate = "running" /\ outScript = <<>> /\ errScript = <<>>
    /\ cstate' = "terminated"
    /\ UNCHANGED <<exitStatus, outScript, errScript, outPipe, errPipe, wroteOut, wroteErr>>
    /\ UNCHANGED <<versionVars, refVars, machineVars, callVars, queryVars, observedVars>>

\* proc.stdout.on('data', ...)
OnStdoutData ==
    /\ outPipe # <<>>
    /\ stdout' = stdout \o Head(outPipe)
    /\ outPipe' = Tail(outPipe)
    /\ UNCHANGED <<pc, entry, spawnedExe, stdinEnded, stderr, exitFired>>
    /\ UNCHANGED <<cstate, exitStatus, outScript, errScript, errPipe, wroteOut, wroteErr>>
    /\ UNCHANGED <<versionVars, refVars, machineVars, queryVars, observedVars>>

\* proc.stderr.on('data', ...)
OnStderrData ==
    /\ errPipe # <<>>
    /\ stderr' = stderr \o Head(errPipe)
    /\ errPipe' = Tail(errPipe)
    /\ UNCHANGED <<pc, entry, spawnedExe, stdinEnded, stdout, exitFired>>
    /\ UNCHANGED <<cstate, exitStatus, outScript, errScript, outPipe, wroteOut, wroteErr>>
    /\ UNCHANGED <<versionVars, refVars, machineVars, queryVars, observedVars>>

\* proc.on('exit', ...): the 'exit' event follows the child's termination;
\* the streams may still hold data ('close' is the event that follows their
\* end).  The listener calls cb, which for run and parse is their listener.
OnExit ==
    /\ cstate = "terminated" /\ ~exitFired
    /\ exitFired' = TRUE
    /\ cbCount' = cbCount + 1
    /\ cbArgs' = [code |-> exitStatus, stderr |-> stderr, stdout |-> stdout]
    /\ LET r == RunCallback(exitStatus, stderr, stdout)
       IN IF entry = "runWithStatus"
          THEN UNCHANGED <<runCbCount, runCbArgs, onerrorCount, onerrorArg, parseCbCount, uncaught>>
          ELSE IF r.kind = "throw"
          THEN /\ uncaught' = "SyntaxError"
               /\ UNCHANGED <<runCbCount, runCbArgs, onerrorCount, onerrorArg, parseCbCount>>
          ELSE /\ runCbCount' = runCbCount + 1
               /\ runCbArgs' = [error |-> r.error, result |-> r.result]
               /\ IF entry = "run"
                  THEN UNCHANGED <<onerrorCount, onerrorArg, parseCbCount, uncaught>>
                  ELSE IF ParseCallback(r.error) = "onerror"
                  THEN /\ onerrorCount' = onerrorCount + 1
                       /\ onerrorArg' = r.error
                       /\ UNCHANGED <<parseCbCount, uncaught>>
                  ELSE \E x \in ExtractionOutcomes :
                       /\ parseCbCount' = IF x = "returns" THEN parseCbCount + 1 ELSE parseCbCount
                       /\ uncaught' = IF x = "returns" THEN uncaught ELSE "TypeError"
                       /\ UNCHANGED <<onerrorCount, onerrorArg>>
    /\ UNCHANGED <<pc, entry, spawnedExe, stdinEnded, stdout, stderr>>
    /\ UNCHANGED <<promptCount, spawnCount>>
    /\ UNCHANGED <<versionVars, refVars, machineVars, childVars, queryVars>>


(***************************************************************************)
(* The version comparison as a machine: the arguments, then the call.      *)
(***************************************************************************)
VersionOff ==
    /\ vpc = "off" /\ va = <<>> /\ vb = <<>>
    /\ vstatus = "none" /\ vstdout = <<>> /\ vres = FALSE

VersionInit ==
    /\ vres = FALSE
    /\ \/ /\ vpc = "compare"
          /\ va \in VersionInputs /\ vb \in VersionInputs
          /\ vstatus = "none" /\ vstdout = <<>>
       \/ /\ vpc = "installed"
          /\ va = <<>> /\ vb = Threshold
          /\ vstatus \in SpawnStatuses /\ vstdout \in VersionOutputs

\* opaVersionSameOrNewerThan(a, b)
Compare ==
    /\ vpc = "compare"
    /\ vres' = opaVersionSameOrNewerThan(va, vb)
    /\ vpc' = "compared"
    /\ UNCHANGED <<va, vb, vstatus, vstdout, refVars, procVars>>

\* canUseBundleFlags(): installedOPASameOrNewerThan("0.14.0-dev")
CompareInstalled ==
    /\ vpc = "installed"
    /\ va' = getOPAVersionString(vstatus, vstdout)
    /\ vres' = canUseBundleFlags(vstatus, vstdout)
    /\ vpc' = "compared"
    /\ UNCHANGED <<vb, vstatus, vstdout, refVars, procVars>>

(***************************************************************************)
(* refToString as a machine: one step per loop iteration.                  *)
(***************************************************************************)
RefOff == rpc = "off" /\ ref = <<>> /\ ri = 0 /\ result = JStr(<<>>)

RefInit == rpc = "start" /\ ref \in Refs /\ ri = 0 /\ result = JStr(<<>>)

\* let result = ref[0].value; it throws a TypeError on an empty ref.
RefStart ==
    /\ rpc = "start"
    /\ IF ref = <<>>
       THEN rpc' = "threw" /\ UNCHANGED <<ri, result>>
       ELSE rpc' = "loop" /\ ri' = 1 /\ result' = ref[1].value
    /\ UNCHANGED <<ref, versionVars, procVars>>

\* One iteration: result += ..., i++.
RefStep ==
    /\ rpc = "loop" /\ ri < Len(ref)
    /\ result' = JStr(JsString(result) \o RefAppend(ref[ri + 1]))
    /\ ri' = ri + 1
    /\ UNCHANGED <<rpc, ref, versionVars, procVars>>

RefReturn ==
    /\ rpc = "loop" /\ ri >= Len(ref)
    /\ rpc' = "returned"
    /\ UNCHANGED <<ref, ri, result, versionVars, procVars>>

(***************************************************************************)
(* The specifications.                                                     *)
(***************************************************************************)
ProcOff == pathBinary = "none" /\ override = "undefined" /\ ProcInit

Init ==
    /\ VersionOff /\ RefOff
    /\ pathBinary \in PathBinaries /\ override \in Overrides
    /\ ProcInit

Next ==
    \/ VersionQuery
    \/ Call
    \/ OnSpawnError
    \/ ChildWriteOut
    \/ ChildWriteErr
    \/ ChildTerminate
    \/ OnStdoutData
    \/ OnStderrData
    \/ OnExit

Spec == Init /\ [][Next]_vars

InitVersion == VersionInit /\ RefOff /\ ProcOff

NextVersion == Compare \/ CompareInstalled

SpecVersion == InitVersion /\ [][NextVersion]_vars

InitRef == VersionOff /\ RefInit /\ ProcOff

NextRef == RefStart \/ RefStep \/ RefReturn

SpecRef == InitRef /\ [][NextRef]_vars


(***************************************************************************)
(* The claims.                                                             *)
(***************************************************************************)
RunEntered == entry \in {"run", "parse"} /\ exitFired

\* The message run is to report for a non-zero exit code.
FailureMessage == IF cbArgs.stdout # <<>> THEN cbArgs.stdout ELSE cbArgs.stderr

OkDocument == <<"{", "\"", "o", "k", "\"", ":", "t", "r", "u", "e", "}">>
OkTree == TObj(<< <<(<<"o", "k">>), TLit("true")>> >>)

\* C1: once the child of a run has exited, a non-zero exit code gives run's
\* callback an error that is the captured stdout when that is not empty and
\* the captured stderr otherwise; exit code 0 with a stdout that is a JSON
\* document gives it an empty error and the decoded document.
C1_RunClassifiesExit ==
    RunEntered =>
        /\ CodeNotZero(cbArgs.code) => runCbCount = 1 /\ runCbArgs.error = FailureMessage
        /\ (~CodeNotZero(cbArgs.code) /\ JSONparse(cbArgs.stdout).ok) =>
                /\ runCbCount = 1
                /\ runCbArgs.error = <<>>
                /\ runCbArgs.result = JSONparse(cbArgs.stdout).val
        /\ (~CodeNotZero(cbArgs.code) /\ cbArgs.stdout = OkDocument) => runCbArgs.result = OkTree

\* A run whose child exited with code 1 having written to both streams, all
\* of it captured: the error is what it wrote to stdout.
C1_Witness ==
    /\ entry = "run" /\ exitFired
    /\ cbArgs.code = Code(1)
    /\ cbArgs.stdout = <<"e", "r", "r">> /\ cbArgs.stderr = <<"b", "o", "o", "m">>
    /\ runCbCount = 1 /\ runCbArgs.error = <<"e", "r", "r">>

Numeric(p) == Len(p) = 4 /\ ~p[1].nan /\ ~p[2].nan /\ ~p[3].nan

Least(S) == CHOOSE i \in S : \A j \in S : i <= j

\* a >= b on strings, by the first position at which they differ.
LexGe(s, t) ==
    LET n == IF Len(s) < Len(t) THEN Len(s) ELSE Len(t)
        diffs == {i \in 1..n : s[i] # t[i]}
    IN IF diffs = {} THEN Len(s) >= Len(t)
       ELSE CharCode[s[Least(diffs)]] > CharCode[t[Least(diffs)]]

\* The order the claim states on two parsed versions.
Decided(pa, pb) ==
    LET diffs == {i \in 1..3 : pa[i].val # pb[i].val}
    IN IF diffs # {} THEN pa[Least(diffs)].val > pb[Least(diffs)].val
       ELSE IF pa[4] = <<>> /\ pb[4] # <<>> THEN TRUE
       ELSE IF pa[4] # <<>> /\ pb[4] = <<>> THEN FALSE
       ELSE LexGe(pa[4], pb[4])

\* C2: when both versions parse with numeric major, minor and point, the
\* first of these at which they differ decides; when none differs an empty
\* patch beats a non-empty one, and otherwise the patches compare as strings.
C2_ComparisonOrder ==
    (vpc = "compared" /\ Numeric(parseOPAVersion(va)) /\ Numeric(parseOPAVersion(vb))) =>
        vres = Decided(parseOPAVersion(va), parseOPAVersion(vb))

\* The installed 0.14.0 against the threshold 0.14.0-dev: same or newer.
C2_Witness ==
    vpc = "compared" /\ vstatus = "0" /\ va = V0140 /\ vb = Threshold /\ vres = TRUE

DotCount(s) == Cardinality({i \in 1..Len(s) : s[i] = "."})

\* C3: when one of the two strings has fewer than three dot-separated parts
\* the comparison is true, whatever the other is; so it is when the
\* installed version string is empty.
C3_PermissiveDefault ==
    (vpc = "compared" /\ (DotCount(va) < 2 \/ DotCount(vb) < 2)) => vres = TRUE

\* A failed version query against the threshold.
C3_Witness ==
    vpc = "compared" /\ vstatus = "1" /\ va = <<>> /\ vb = Threshold /\ vres = TRUE

\* C4: once the child of a parse has exited with a non-zero code, onerror
\* has been called once with run's failure message and cb has not been
\* called; cb is called only for exit code 0.
C4_ParseForwardsFailure ==
    (entry = "parse" /\ exitFired) =>
        /\ CodeNotZero(cbArgs.code) =>
                /\ onerrorCount = 1 /\ onerrorArg = FailureMessage
                /\ parseCbCount = 0 /\ uncaught = "none"
        /\ parseCbCount > 0 => ~CodeNotZero(cbArgs.code)

\* C5: once the child of a run has exited with code 0 and a stdout that is
\* no JSON document, run's callback has been called with a failure and
\* nothing was thrown.
C5_DecodeFailureReported ==
    (RunEntered /\ ~CodeNotZero(cbArgs.code) /\ ~JSONparse(cbArgs.stdout).ok) =>
        /\ uncaught = "none"
        /\ runCbCount = 1 /\ runCbArgs.error # <<>>

\* Neither the search path nor the setting gives a binary.
NotFound == pathBinary = "none" /\ override \in {"undefined", "null", "missing"}

\* C6: a call that finds no binary prompts for the install once, spawns
\* nothing and never calls back; a call that finds one does not prompt and
\* calls cp.spawn once, which starts a child when the file can be executed.
C6_BinaryNotFound ==
    IF pc = "idle" THEN promptCount = 0 /\ spawnCount = 0
    ELSE IF NotFound
    THEN /\ promptCount = 1 /\ spawnCount = 0 /\ cstate = "none" /\ spawnedExe = "unset"
         /\ cbCount = 0 /\ runCbCount = 0 /\ onerrorCount = 0 /\ parseCbCount = 0
    ELSE /\ promptCount = 0 /\ spawnCount = 1 /\ spawnedExe # "unset"
         /\ Executable(spawnedExe, pathBinary, override) => cstate # "none"

\* A parse on a machine with no binary.
C6_Witness ==
    pc = "noBinary" /\ entry = "parse" /\ NotFound /\ promptCount = 1 /\ onerrorCount = 0

\* C7: what runWithStatus hands to its callback is all the child wrote.
C7_BuffersComplete ==
    cbCount >= 1 => cbArgs.stdout = wroteOut /\ cbArgs.stderr = wroteErr

\* The path the Locate rule gives.
Located == IF override \in {"noexec", "v0150"} THEN "opa.path" ELSE "opa"

\* C8: runWithStatus spawns the path the Locate rule gives, and the version
\* query runs the same executable.
C8_SameExecutable ==
    /\ spawnCount >= 1 => spawnedExe = Located
    /\ (versionQueried /\ spawnCount >= 1) => versionExe = spawnedExe

Example ==
    <<Seg("var", JStr(<<"i", "n", "p", "u", "t">>)), Seg("string", JStr(<<"a">>)),
      Seg("string", JStr(<<"b", "-", "c">>)), Seg("number", JNum(0))>>
ExampleText ==
    <<"i", "n", "p", "u", "t", ".", "a", "[", "\"", "b", "-", "c", "\"", "]", "[", "0", "]">>

IsIdentifier(s) ==
    /\ s # <<>>
    /\ Head(s) \notin Digits
    /\ \A j \in 1..Len(s) : s[j] \in Lower \cup Upper \cup Digits \cup {"_"}

\* The rendering the claim states for a segment after the first.
Rendering(seg) ==
    IF seg.type = "string" /\ IsIdentifier(JsString(seg.value))
    THEN <<".">> \o JsString(seg.value)
    ELSE <<"[">> \o JSONstringify(seg.value) \o <<"]">>

\* C9: after i segments the result is the first segment's value followed by
\* the renderings of segments 2..i in order, and refToString returns after
\* the last segment.
C9_Format ==
    rpc \in {"loop", "returned"} =>
        /\ JsString(result) = JsString(ref[1].value) \o Concat([k \in 1..(ri - 1) |-> Rendering(ref[k + 1])])
        /\ rpc = "returned" => ri = Len(ref)

\* The example of the claim.
C9_Witness == rpc = "returned" /\ ref = Example /\ result = JStr(ExampleText)

\* C10: runWithStatus calls back at most once and only after the child has
\* terminated; a child that could not be started is reported through the
\* callback, not thrown.
C10_CallbackOnce ==
    /\ cbCount <= 1
    /\ cbCount = 1 => cstate = "terminated"
    /\ uncaught # "spawn error"
    /\ pc = "errored" => cbCount = 1

=============================================================================
